---- MODULE Spec2Model ----
(***************************************************************************)
(* Model of lib/open_library_api.py: the Search class's                    *)
(* get_user_search_results method and the module-level script that calls  *)
(* it.  Python strings are sequences of one-character strings, so that     *)
(* str.replace, str.join and the f-strings are modelled character by       *)
(* character.  The remote service is the environment: it answers a GET     *)
(* with a connection failure or with a status code and a body.             *)
(***************************************************************************)
EXTENDS Integers, Sequences, FiniteSets, TLC

(* ------------------------------ bounds -------------------------------- *)
\* longest title typed on standard input
MaxLen == 3
\* most documents in a "docs" array
MaxDocs == 2
\* most names in an "author_name" array
MaxAuthors == 2

\* characters a title is made of: the space, '+', a letter and the URL's
\* reserved characters '&', '=', '?', '#'
Chars == {" ", "+", "a", "&", "=", "?", "#"}

SeqsUpTo(S, n) == UNION {[1..k -> S] : k \in 0..n}

Titles == SeqsUpTo(Chars, MaxLen)

\* values of a document's "title" and of the entries of "author_name"
TitleVals == {<<"H">>, <<"L", "R">>}
AuthorVals == {<<"T">>, <<"C", "L">>}

\* status codes the service answers with
StatusCodes == {200, 404}

(* ------------------------ Python's None / values ---------------------- *)
None == <<>>
Some(x) == <<x>>
Val(o) == o[1]

(* --------------------------- string helpers --------------------------- *)
Concat(ss) ==
    LET RECURSIVE cat(_)
        cat(k) == IF k > Len(ss) THEN <<>> ELSE ss[k] \o cat(k + 1)
    IN cat(1)

\* str.replace(old, new) for one-character old and new
Replace(s, old, new) ==
    LET RECURSIVE rep(_)
        rep(k) == IF k > Len(s) THEN <<>>
                  ELSE <<IF s[k] = old THEN new ELSE s[k]>> \o rep(k + 1)
    IN rep(1)

\* sep.join(parts)
Join(sep, parts) ==
    LET RECURSIVE j(_)
        j(k) == IF k > Len(parts) THEN <<>>
                ELSE IF k = Len(parts) THEN parts[k]
                ELSE parts[k] \o sep \o j(k + 1)
    IN j(1)

\* str(n) of a one-digit non-negative integer, as the f-string formats it
Digits == <<"0", "1", "2", "3", "4", "5", "6", "7", "8", "9">>
Str(n) == <<Digits[n + 1]>>

(* ------------------------- get_user_search_results -------------------- *)
fields == << <<"t", "i", "t", "l", "e">>,
             <<"a", "u", "t", "h", "o", "r", "_", "n", "a", "m", "e">> >>

fields_formatted == Join(<<",">>, fields)

limit == 1

Endpoint == <<"h", "t", "t", "p", "s", ":", "/", "/", "o", "p", "e", "n", "l",
              "i", "b", "r", "a", "r", "y", ".", "o", "r", "g", "/", "s", "e",
              "a", "r", "c", "h", ".", "j", "s", "o", "n">>
TitleParam == <<"?", "t", "i", "t", "l", "e", "=">>
FieldsParam == <<"&", "f", "i", "e", "l", "d", "s", "=">>
LimitParam == <<"&", "l", "i", "m", "i", "t", "=">>

\* str.replace(old, new, 1): only the first occurrence is replaced
ReplaceFirst(s, old, new) ==
    LET RECURSIVE rep(_, _)
        rep(k, done) ==
            IF k > Len(s) THEN <<>>
            ELSE IF s[k] = old /\ ~done THEN <<new>> \o rep(k + 1, TRUE)
            ELSE <<s[k]>> \o rep(k + 1, done)
    IN rep(1, FALSE)

FormatTerm_first(term) == ReplaceFirst(term, " ", "+")

\* line 36
FormatTerm(term) == Replace(term, " ", "+")

\* the f-string without its last parameter
MakeURL_nolimit(term_formatted) ==
    Concat(<<Endpoint, TitleParam, term_formatted, FieldsParam, fields_formatted>>)

\* line 41: the f-string
MakeURL(term_formatted) ==
    Concat(<<Endpoint, TitleParam, term_formatted,
             FieldsParam, fields_formatted, LimitParam, Str(limit)>>)

(* ------------------------------ JSON ---------------------------------- *)
\* A parsed body: kind "array" stands for any JSON value that is not an
\* object; an object has or lacks the key "docs"; a document has or lacks
\* the keys "title" and "author_name".  An absent key's value is empty.
AuthorLists(n) == SeqsUpTo(AuthorVals, n)

Docs(n) ==
    {[has_title |-> ht, title |-> t, has_author_name |-> ha, author_name |-> a] :
        ht \in {TRUE}, t \in TitleVals, ha \in {TRUE}, a \in AuthorLists(n)}
    \cup
    {[has_title |-> FALSE, title |-> <<>>, has_author_name |-> TRUE, author_name |-> a] :
        a \in AuthorLists(n)}
    \cup
    {[has_title |-> TRUE, title |-> t, has_author_name |-> FALSE, author_name |-> <<>>] :
        t \in TitleVals}
    \cup
    {[has_title |-> FALSE, title |-> <<>>, has_author_name |-> FALSE, author_name |-> <<>>]}

JsonArray == [kind |-> "array", has_docs |-> FALSE, docs |-> <<>>]
JsonNoDocs == [kind |-> "object", has_docs |-> FALSE, docs |-> <<>>]

JsonValues(nd, na) ==
    {JsonArray, JsonNoDocs}
    \cup {[kind |-> "object", has_docs |-> TRUE, docs |-> d] : d \in SeqsUpTo(Docs(na), nd)}

\* Python's 0-based subscript
At(list, i) == list[i + 1]

\* line 44: the f-string's subscripts, in evaluation order; the exception
\* the first failing subscript raises, or the formatted string
TitleLabel == <<"T", "i", "t", "l", "e", ":", " ">>
AuthorLabel == <<"\n", "A", "u", "t", "h", "o", "r", ":", " ">>

\* author_name[-1] in place of author_name[0]
Line44_lastauthor(response) ==
    IF response.kind # "object" THEN [exc |-> "TypeError", value |-> None]
    ELSE IF ~response.has_docs THEN [exc |-> "KeyError", value |-> None]
    ELSE IF 0 >= Len(response.docs) THEN [exc |-> "IndexError", value |-> None]
    ELSE IF ~At(response.docs, 0).has_title THEN [exc |-> "KeyError", value |-> None]
    ELSE IF ~At(response.docs, 0).has_author_name THEN [exc |-> "KeyError", value |-> None]
    ELSE IF 0 >= Len(At(response.docs, 0).author_name)
         THEN [exc |-> "IndexError", value |-> None]
    ELSE [exc |-> "none",
          value |-> Some(Concat(<<TitleLabel, At(response.docs, 0).title, AuthorLabel,
                                  At(At(response.docs, 0).author_name,
                                     Len(At(response.docs, 0).author_name) - 1)>>))]

\* an empty docs array formatted as an empty title and author
Line44_default(response) ==
    IF response.kind # "object" THEN [exc |-> "TypeError", value |-> None]
    ELSE IF ~response.has_docs THEN [exc |-> "KeyError", value |-> None]
    ELSE IF 0 >= Len(response.docs)
         THEN [exc |-> "none", value |-> Some(Concat(<<TitleLabel, AuthorLabel>>))]
    ELSE IF ~At(response.docs, 0).has_title THEN [exc |-> "KeyError", value |-> None]
    ELSE IF ~At(response.docs, 0).has_author_name THEN [exc |-> "KeyError", value |-> None]
    ELSE IF 0 >= Len(At(response.docs, 0).author_name)
         THEN [exc |-> "IndexError", value |-> None]
    ELSE [exc |-> "none",
          value |-> Some(Concat(<<TitleLabel, At(response.docs, 0).title,
                                  AuthorLabel, At(At(response.docs, 0).author_name, 0)>>))]

\* a missing or empty author_name formatted as "Unknown"
Line44_placeholder(response) ==
    IF response.kind # "object" THEN [exc |-> "TypeError", value |-> None]
    ELSE IF ~response.has_docs THEN [exc |-> "KeyError", value |-> None]
    ELSE IF 0 >= Len(response.docs) THEN [exc |-> "IndexError", value |-> None]
    ELSE IF ~At(response.docs, 0).has_title THEN [exc |-> "KeyError", value |-> None]
    ELSE IF \/ ~At(response.docs, 0).has_author_name
            \/ 0 >= Len(At(response.docs, 0).author_name)
         THEN [exc |-> "none",
               value |-> Some(Concat(<<TitleLabel, At(response.docs, 0).title, AuthorLabel,
                                       <<"U", "n", "k", "n", "o", "w", "n">> >>))]
    ELSE [exc |-> "none",
          value |-> Some(Concat(<<TitleLabel, At(response.docs, 0).title,
                                  AuthorLabel, At(At(response.docs, 0).author_name, 0)>>))]

Line44(response) ==
    IF response.kind # "object" THEN [exc |-> "TypeError", value |-> None]
    ELSE IF ~response.has_docs THEN [exc |-> "KeyError", value |-> None]
    ELSE IF 0 >= Len(response.docs) THEN [exc |-> "IndexError", value |-> None]
    ELSE IF ~At(response.docs, 0).has_title THEN [exc |-> "KeyError", value |-> None]
    ELSE IF ~At(response.docs, 0).has_author_name THEN [exc |-> "KeyError", value |-> None]
    ELSE IF 0 >= Len(At(response.docs, 0).author_name)
         THEN [exc |-> "IndexError", value |-> None]
    ELSE [exc |-> "none",
          value |-> Some(Concat(<<TitleLabel, At(response.docs, 0).title,
                                  AuthorLabel, At(At(response.docs, 0).author_name, 0)>>))]

(* --------------------------- the environment -------------------------- *)
\* What a GET meets on the wire: no connection, or a status and a body that
\* parses as JSON or does not.  The request asks for limit=1, so the bodies
\* drawn hold at most one document.
NoJson == [kind |-> "none", has_docs |-> FALSE, docs |-> <<>>]

WireOutcomes ==
    {[ok |-> FALSE, status |-> 0, valid_json |-> FALSE, json |-> NoJson]}
    \cup {[ok |-> TRUE, status |-> s, valid_json |-> FALSE, json |-> NoJson] :
            s \in StatusCodes}
    \cup {[ok |-> TRUE, status |-> s, valid_json |-> TRUE, json |-> j] :
            s \in StatusCodes, j \in JsonValues(limit, MaxAuthors)}

(* ------------------------------- state -------------------------------- *)
VARIABLES
    pc,                    \* the line about to run
    mode,                  \* "script": the module's own run; "calls": a caller making calls
    search_term,           \* the title (None before it is read)
    search_term_formatted, \* local of line 36
    URL,                   \* local of line 41
    wire,                  \* what the GET of line 43 met
    response,              \* local of line 43: the parsed body
    response_formatted,    \* local of line 44
    exc,                   \* the exception propagating, "none" when there is none
    result,                \* the script's global of line 55
    stdout,                \* what was written to standard output, one entry per write
    gets,                  \* requests.get calls made by the current call
    self,                  \* the Search instance the method runs on
    attrs,                 \* per Search instance, what its attributes hold
    ref                    \* a completed call kept for comparison with later ones

vars == <<pc, mode, search_term, search_term_formatted, URL, wire, response,
          response_formatted, exc, result, stdout, gets, self, attrs, ref>>

\* Search instances a caller may hold
Instances == {"s1", "s2"}

\* the method's local variables
locals == <<search_term_formatted, URL, wire, response, response_formatted>>
\* what no line of the method assigns
outside == <<mode, search_term, result, stdout, self, attrs, ref>>

Prompt == <<"E", "n", "t", "e", "r", " ", "a", " ", "b", "o", "o", "k", " ",
            "t", "i", "t", "l", "e", ":", " ">>
Header == <<"S", "e", "a", "r", "c", "h", " ", "R", "e", "s", "u", "l", "t", ":", "\n">>
\* print(x) writes x and a line end
PrintOut(x) == x \o <<"\n">>

\* a call's frame before its first line has run
Fresh ==
    /\ search_term_formatted = None
    /\ URL = None
    /\ wire = None
    /\ response = None
    /\ response_formatted = None
    /\ exc = "none"
    /\ gets = 0

\* class Search defines no attribute and no __init__
NoAttrs == [i \in Instances |-> None]

Init ==
    /\ pc = "input"
    /\ mode = "script"
    /\ search_term = None
    /\ Fresh
    /\ result = None
    /\ stdout = <<>>
    /\ self = None
    /\ attrs = NoAttrs
    /\ ref = None

(* ------------------------------ the script ---------------------------- *)
\* line 54: input() writes the prompt and reads a line
Input ==
    /\ pc = "input"
    /\ \E line \in Titles : search_term' = Some(line)
    /\ stdout' = Append(stdout, Prompt)
    /\ pc' = "search"
    /\ UNCHANGED <<mode, locals, exc, result, gets, self, attrs, ref>>

\* line 54: standard input is at its end
InputEOF ==
    /\ pc = "input"
    /\ stdout' = Append(stdout, Prompt)
    /\ exc' = "EOFError"
    /\ pc' = "raise"
    /\ UNCHANGED <<mode, search_term, locals, result, gets, self, attrs, ref>>

\* lines 55 and 56 swapped: the header is printed before the search
CallSearch_after_header ==
    /\ pc = "search"
    /\ self' = Some("s1")
    /\ stdout' = Append(stdout, PrintOut(Header))
    /\ pc' = "call"
    /\ UNCHANGED <<mode, search_term, locals, exc, result, gets, attrs, ref>>

\* line 55: Search() makes an instance and the method is entered
CallSearch ==
    /\ pc = "search"
    /\ self' = Some("s1")
    /\ pc' = "call"
    /\ UNCHANGED <<mode, search_term, locals, exc, result, stdout, gets, attrs, ref>>

(* ------------------------------ the method ---------------------------- *)
\* the URL kept on the instance and the one of the call before reused
BuildURL_stale ==
    /\ pc = "call"
    /\ search_term_formatted' = Some(FormatTerm(Val(search_term)))
    /\ URL' = IF attrs[Val(self)] # None THEN attrs[Val(self)]
              ELSE Some(MakeURL(FormatTerm(Val(search_term))))
    /\ attrs' = [attrs EXCEPT ![Val(self)] = Some(MakeURL(FormatTerm(Val(search_term))))]
    /\ pc' = "get"
    /\ UNCHANGED <<wire, response, response_formatted, exc, gets, mode, search_term,
                   result, stdout, self, ref>>

\* lines 36-41
BuildURL ==
    /\ pc = "call"
    /\ search_term_formatted' = Some(FormatTerm(Val(search_term)))
    /\ URL' = Some(MakeURL(FormatTerm(Val(search_term))))
    /\ pc' = "get"
    /\ UNCHANGED <<wire, response, response_formatted, exc, gets, outside>>

\* line 43: requests.get(URL) returns a response
Get ==
    /\ pc = "get"
    /\ \E w \in WireOutcomes : w.ok /\ wire' = Some(w)
    /\ gets' = gets + 1
    /\ pc' = "json"
    /\ UNCHANGED <<search_term_formatted, URL, response, response_formatted, exc, outside>>

\* a failed connection tried once more before the exception propagates
GetFails_retry ==
    /\ pc = "get"
    /\ \E w \in WireOutcomes : ~w.ok /\ wire' = Some(w)
    /\ gets' = gets + 1
    /\ IF gets = 0
       THEN pc' = "get" /\ exc' = exc
       ELSE pc' = "raise" /\ exc' = "ConnectionError"
    /\ UNCHANGED <<search_term_formatted, URL, response, response_formatted, outside>>

\* line 43: requests.get(URL) raises, the connection failed
GetFails ==
    /\ pc = "get"
    /\ \E w \in WireOutcomes : ~w.ok /\ wire' = Some(w)
    /\ gets' = gets + 1
    /\ exc' = "ConnectionError"
    /\ pc' = "raise"
    /\ UNCHANGED <<search_term_formatted, URL, response, response_formatted, outside>>

\* raise_for_status() called before .json()
Json_raise_for_status ==
    /\ pc = "json"
    /\ Val(wire).valid_json
    /\ IF Val(wire).status \in 200..299
       THEN response' = Some(Val(wire).json) /\ pc' = "format" /\ exc' = exc
       ELSE response' = response /\ pc' = "raise" /\ exc' = "HTTPError"
    /\ UNCHANGED <<search_term_formatted, URL, wire, response_formatted, gets, outside>>

\* line 43: .json() parses the body, whatever the status
Json ==
    /\ pc = "json"
    /\ Val(wire).valid_json
    /\ response' = Some(Val(wire).json)
    /\ pc' = "format"
    /\ UNCHANGED <<search_term_formatted, URL, wire, response_formatted, exc, gets, outside>>

\* the parse error caught and an empty object used in the body's place
JsonFails_swallow ==
    /\ pc = "json"
    /\ ~Val(wire).valid_json
    /\ response' = Some(JsonNoDocs)
    /\ pc' = "format"
    /\ UNCHANGED <<search_term_formatted, URL, wire, response_formatted, exc, gets, outside>>

\* line 43: .json() raises, the body is not JSON
JsonFails ==
    /\ pc = "json"
    /\ ~Val(wire).valid_json
    /\ exc' = "JSONDecodeError"
    /\ pc' = "raise"
    /\ UNCHANGED <<search_term_formatted, URL, wire, response, response_formatted, gets,
                   outside>>

\* line 44
Format ==
    /\ pc = "format"
    /\ Line44(Val(response)).exc = "none"
    /\ response_formatted' = Line44(Val(response)).value
    /\ pc' = "return"
    /\ UNCHANGED <<search_term_formatted, URL, wire, response, exc, gets, outside>>

\* line 44: a subscript raises
FormatFails ==
    /\ pc = "format"
    /\ Line44(Val(response)).exc # "none"
    /\ exc' = Line44(Val(response)).exc
    /\ pc' = "raise"
    /\ UNCHANGED <<search_term_formatted, URL, wire, response, response_formatted, gets,
                   outside>>

(* -------------------------- the script, continued --------------------- *)
\* lines 45 and 55: the method returns and the script binds result
Return ==
    /\ pc = "return"
    /\ mode = "script"
    /\ result' = response_formatted
    /\ pc' = "print_header"
    /\ UNCHANGED <<mode, search_term, locals, exc, stdout, gets, self, attrs, ref>>

\* line 56
PrintHeader ==
    /\ pc = "print_header"
    /\ stdout' = Append(stdout, PrintOut(Header))
    /\ pc' = "print_result"
    /\ UNCHANGED <<mode, search_term, locals, exc, result, gets, self, attrs, ref>>

\* line 57
PrintResult ==
    /\ pc = "print_result"
    /\ stdout' = Append(stdout, PrintOut(Val(result)))
    /\ pc' = "done"
    /\ UNCHANGED <<mode, search_term, locals, exc, result, gets, self, attrs, ref>>

Next ==
    \/ Input
    \/ InputEOF
    \/ CallSearch
    \/ BuildURL
    \/ Get
    \/ GetFails
    \/ Json
    \/ JsonFails
    \/ Format
    \/ FormatFails
    \/ Return
    \/ PrintHeader
    \/ PrintResult

Spec == Init /\ [][Next]_vars

(* ------------- line 44 on every parsed body within the bounds --------- *)
\* The script at line 44, after the empty title was read and a 200 answer
\* parsed: the parsed body is any value of up to MaxDocs documents.
InitFormat ==
    /\ pc = "format"
    /\ mode = "script"
    /\ search_term = Some(<<>>)
    /\ search_term_formatted = Some(FormatTerm(<<>>))
    /\ URL = Some(MakeURL(FormatTerm(<<>>)))
    /\ \E j \in JsonValues(MaxDocs, MaxAuthors) :
          /\ wire = Some([ok |-> TRUE, status |-> 200, valid_json |-> TRUE, json |-> j])
          /\ response = Some(j)
    /\ response_formatted = None
    /\ exc = "none"
    /\ gets = 1
    /\ result = None
    /\ stdout = <<Prompt>>
    /\ self = Some("s1")
    /\ attrs = NoAttrs
    /\ ref = None

NextFormat ==
    \/ Format
    \/ FormatFails
    \/ Return
    \/ PrintHeader
    \/ PrintResult

SpecFormat == InitFormat /\ [][NextFormat]_vars

(* ------------------- a caller making call after call ------------------ *)
\* titles the caller passes
CallTitles == SeqsUpTo({" ", "a"}, 1)

InitCalls ==
    /\ pc = "idle"
    /\ mode = "calls"
    /\ search_term = None
    /\ Fresh
    /\ result = None
    /\ stdout = <<>>
    /\ self = None
    /\ attrs = NoAttrs
    /\ ref = None

\* line 35: the method is entered on some instance with some title
Call ==
    /\ pc = "idle"
    /\ \E i \in Instances : self' = Some(i)
    /\ \E t \in CallTitles : search_term' = Some(t)
    /\ pc' = "call"
    /\ UNCHANGED <<mode, locals, exc, result, stdout, gets, attrs, ref>>

\* what a call that ended leaves to compare: its inputs and its outcome
Ended ==
    [self |-> self, title |-> search_term, wire |-> wire, URL |-> URL, exc |-> exc,
     value |-> response_formatted]

\* line 45, or the exception reaching the caller: the frame is gone; the
\* call may be the one kept for comparison
CallEnd ==
    /\ pc \in {"return", "raise"}
    /\ mode = "calls"
    /\ ref' \in {ref, Some(Ended)}
    /\ search_term' = None
    /\ search_term_formatted' = None
    /\ URL' = None
    /\ wire' = None
    /\ response' = None
    /\ response_formatted' = None
    /\ exc' = "none"
    /\ gets' = 0
    /\ self' = None
    /\ pc' = "idle"
    /\ UNCHANGED <<mode, result, stdout, attrs>>

NextCalls ==
    \/ Call
    \/ BuildURL
    \/ Get
    \/ GetFails
    \/ Json
    \/ JsonFails
    \/ Format
    \/ FormatFails
    \/ CallEnd

SpecCalls == InitCalls /\ [][NextCalls]_vars

(* ============================ the properties ========================== *)
\* the method returned (the script may have gone on to print)
Succeeded == pc \in {"return", "print_header", "print_result", "done"}
\* an exception left the method
Failed == pc = "raise" /\ exc # "EOFError"
CallOver == Succeeded \/ Failed

Range(f) == {f[i] : i \in DOMAIN f}

\* the parts of s between its ends and each sep
Split(s, sep) ==
    LET seps == {0, Len(s) + 1} \cup {i \in 1..Len(s) : s[i] = sep}
    IN {SubSeq(s, p[1] + 1, p[2] - 1) :
           p \in {q \in seps \X seps :
                     /\ q[1] < q[2]
                     /\ \A k \in seps : ~(q[1] < k /\ k < q[2])}}

\* a parsed body line 44 can format: docs[0] with a title and a first author
WellFormed(j) ==
    /\ j.kind = "object"
    /\ j.has_docs
    /\ Len(j.docs) >= 1
    /\ j.docs[1].has_title
    /\ j.docs[1].has_author_name
    /\ Len(j.docs[1].author_name) >= 1

\* "Title: T\nAuthor: A"
TitleAuthor(T, A) ==
    <<"T", "i", "t", "l", "e", ":", " ">> \o T
        \o <<"\n", "A", "u", "t", "h", "o", "r", ":", " ">> \o A

\* C1: the title parameter of the URL is the input title with every space
\* replaced by '+' and every other character kept at its position.
C1_SpacesBecomePlus ==
    search_term_formatted # None =>
        LET s == Val(search_term)
            f == Val(search_term_formatted)
            n == Len(Endpoint)
        IN /\ Len(f) = Len(s)
           /\ \A i \in 1..Len(s) : f[i] = IF s[i] = " " THEN "+" ELSE s[i]
           /\ URL # None
           /\ SubSeq(Val(URL), n + 1, n + 7 + Len(s))
                 = <<"?", "t", "i", "t", "l", "e", "=">> \o f

C1_Witness ==
    /\ search_term_formatted # None
    /\ Val(search_term) = <<" ", "a", " ">>
    /\ Val(search_term_formatted) = <<"+", "a", "+">>

C3_FirstDocFirstAuthor ==
    (response # None /\ pc # "format" /\ WellFormed(Val(response))) =>
        LET d == Val(response).docs[1]
        IN /\ Succeeded
           /\ response_formatted = Some(TitleAuthor(d.title, d.author_name[1]))
           /\ pc \in {"print_header", "print_result", "done"}
                 => result = response_formatted

C3_Witness ==
    /\ pc = "return"
    /\ Len(Val(response).docs) = 2
    /\ Val(response).docs[2].has_title
    /\ Val(response).docs[2].title # Val(response).docs[1].title
    /\ Len(Val(response).docs[1].author_name) = 2
    /\ Val(response).docs[1].author_name[1] # Val(response).docs[1].author_name[2]

\* C4: a body whose docs array is empty makes the method raise; no string,
\* default or empty, is returned.
C4_EmptyDocsFails ==
    (/\ response # None
     /\ pc # "format"
     /\ Val(response).kind = "object"
     /\ Val(response).has_docs
     /\ Val(response).docs = <<>>) =>
        /\ pc = "raise"
        /\ exc = "IndexError"
        /\ response_formatted = None
        /\ result = None

C4_Witness ==
    /\ pc = "raise"
    /\ response # None
    /\ Val(response).has_docs
    /\ Val(response).docs = <<>>

\* C5: a first document whose author_name is empty or missing makes the
\* method raise, title or no title; no placeholder author is returned.
C5_NoAuthorFails ==
    (/\ response # None
     /\ pc # "format"
     /\ Val(response).kind = "object"
     /\ Val(response).has_docs
     /\ Len(Val(response).docs) >= 1
     /\ \/ ~Val(response).docs[1].has_author_name
        \/ Val(response).docs[1].author_name = <<>>) =>
        /\ pc = "raise"
        /\ exc \in {"KeyError", "IndexError"}
        /\ Val(response).docs[1].has_title =>
              exc = IF Val(response).docs[1].has_author_name
                    THEN "IndexError" ELSE "KeyError"
        /\ response_formatted = None
        /\ result = None

C5_Witness ==
    /\ pc = "raise"
    /\ response # None
    /\ Len(Val(response).docs) >= 1
    /\ Val(response).docs[1].has_title
    /\ Val(response).docs[1].has_author_name
    /\ Val(response).docs[1].author_name = <<>>

\* C6: a call makes exactly one GET, whether it returns or raises: none
\* before line 43, one from then on, never a second.
C6_OneGetPerCall ==
    /\ gets \in {0, 1}
    /\ pc \in {"input", "search", "call", "get"} => gets = 0
    /\ pc \in {"json", "format"} => gets = 1
    /\ CallOver => gets = 1

C6_Witness ==
    /\ pc = "raise"
    /\ exc = "ConnectionError"
    /\ gets = 1

\* C7 as stated: a response with a status outside 2xx makes the call fail,
\* whatever its body.
C7_Original ==
    (wire # None /\ Val(wire).ok /\ Val(wire).status \notin 200..299) =>
        /\ ~Succeeded
        /\ response_formatted = None

\* C7: the status is never inspected.  A response with a status outside 2xx
\* makes the call fail exactly when its body is not JSON or lacks
\* docs[0].title or docs[0].author_name[0]; with such a body present the
\* call returns the formatted string as for a 2xx response.
C7_StatusNotInspected ==
    (wire # None /\ Val(wire).ok /\ Val(wire).status \notin 200..299 /\ CallOver) =>
        IF Val(wire).valid_json /\ WellFormed(Val(wire).json)
        THEN /\ Succeeded
             /\ response_formatted =
                   Some(TitleAuthor(Val(wire).json.docs[1].title,
                                    Val(wire).json.docs[1].author_name[1]))
        ELSE /\ Failed
             /\ response_formatted = None
             /\ exc = IF Val(wire).valid_json THEN Line44(Val(wire).json).exc
                      ELSE "JSONDecodeError"

C7_Witness ==
    /\ pc = "return"
    /\ Val(wire).status = 404
    /\ response_formatted # None

\* C8: a failed connection, or a body that is not JSON, raises out of the
\* method and ends the run: nothing is returned, nothing but the prompt was
\* written, and no line runs afterwards.
C8_ConnectionOrParseFailureEndsRun ==
    /\ (wire # None /\ ~Val(wire).ok) => (pc = "raise" /\ exc = "ConnectionError")
    /\ (wire # None /\ Val(wire).ok /\ ~Val(wire).valid_json /\ pc # "json")
          => (pc = "raise" /\ exc = "JSONDecodeError")
    /\ (pc = "raise" /\ exc \in {"ConnectionError", "JSONDecodeError"}) =>
          /\ response_formatted = None
          /\ result = None
          /\ stdout = <<Prompt>>
          /\ ~ENABLED Next

C8_Witness ==
    /\ pc = "raise"
    /\ exc = "JSONDecodeError"
    /\ Val(wire).status = 200

\* C9: the line is read before the search starts; the header and the result
\* are written only after the search returned, header first; a run that
\* fails has written neither the header nor any of the result.
C9_OutputOnlyAfterSuccess ==
    LET header == <<"S", "e", "a", "r", "c", "h", " ", "R", "e", "s", "u", "l", "t", ":",
                    "\n", "\n">>
    IN /\ pc = "input" => (stdout = <<>> /\ search_term = None /\ gets = 0)
       /\ gets > 0 => search_term # None
       /\ pc \in {"search", "call", "get", "json", "format", "return", "print_header",
                  "raise"} => stdout = <<Prompt>>
       /\ pc = "print_result" => (stdout = <<Prompt, header>> /\ result # None)
       /\ pc = "done" =>
             /\ result # None
             /\ result = response_formatted
             /\ stdout = <<Prompt, header, Val(result) \o <<"\n">> >>

C9_Witness ==
    /\ pc = "done"
    /\ Len(stdout) = 3

\* C10: no instance holds any state, and a call's URL and outcome are those
\* of any earlier call, on the same instance or another, that had the same
\* title and met the same response.
C10_CallsIndependent ==
    /\ attrs = NoAttrs
    /\ (ref # None /\ URL # None /\ Val(ref).title = search_term)
          => Val(ref).URL = URL
    /\ (/\ ref # None
        /\ pc \in {"return", "raise"}
        /\ Val(ref).title = search_term
        /\ Val(ref).wire = wire) =>
          /\ Val(ref).exc = exc
          /\ Val(ref).value = response_formatted

C10_Witness ==
    /\ ref # None
    /\ pc = "return"
    /\ Val(ref).title = search_term
    /\ Val(ref).wire = wire
    /\ Val(ref).self # self

====
